---- MODULE Spec2Model ----
(***************************************************************************)
(* Model of ipa-toolkit: the recursive signing walk (pipeline_utils.py,   *)
(* ipa.py), the re-sign pipeline (ipa.py) and the entitlements resolver   *)
(* (entitlements.py).                                                      *)
(*                                                                         *)
(* A path is a sequence of directory entry names, the main application    *)
(* bundle being <<"Main.app">>.  A string that the code inspects by       *)
(* prefix (identifiers, entitlement values) is a sequence of one-letter   *)
(* strings.                                                                *)
(***************************************************************************)
EXTENDS Naturals, Integers, Sequences, FiniteSets, TLC

VARIABLES
    phase,          \* which part of the program runs: "setup", "sign", ...
    fs,             \* the unpacked tree: the set of paths that exist
    ent_by_bundle,  \* entitlements_by_bundle: path -> document (a missing key reads as None)
    stack,          \* call stack of sign_bundle_recursive, innermost frame last
    calls,          \* every codesign call made so far, in order
    tempFiles,      \* temporary entitlements files that exist on disk
    tmpCount,       \* number of temporary files created so far (mkstemp names)
    removeFailed,   \* temporary files whose os.remove raised OSError
    raised,         \* exception raised so far by the running function ("" = none)
    keep_temp,      \* resign_ipa: the keep_temp argument
    new_bundle_id,  \* resign_ipa: the new main identifier ("" = keep the identifiers);
                    \* also the new_bundle_id argument of the entitlements functions
    profile,        \* the provisioning profile, or None
    explicit_entitlements,  \* the explicit entitlements document, or None
    td,             \* the temporary working directory: "", "exists" or "removed"
    todo,           \* bundles the current loop of the pipeline has not handled yet
    bundle_ids,     \* bundle path -> <<old identifier, new identifier>>
    modified,       \* bundles whose Info.plist the run has rewritten
    output_ipa,     \* TRUE once the output archive has been written
    result,         \* how the running function ended for its caller: "", "returned" or "raised"
    require_app_identifier,  \* build/validate: the strict flag
    extract_calls,  \* bundle path -> what extract_entitlements returned for it
    selected,       \* bundle path -> the source document chosen for it (line 152)
    heap,           \* the dict objects of a resolution: object -> its present content
    ent,            \* adjust/validate_entitlements_for_bundle: the document passed in
    team_id,        \* adjust_entitlements_for_bundle: team_id
    old_bundle_id,  \* adjust/validate_entitlements_for_bundle: old_bundle_id
    out,            \* adjust_entitlements_for_bundle: the document returned
    profile_team_id,  \* validate_entitlements_for_bundle: profile_team_id
    message,        \* validate_entitlements_for_bundle: what the SystemExit carries
    id_args,        \* bundle_new_id_for: old_id, old_main_id, new_main_id
    id_result,      \* bundle_new_id_for: the identifier returned
    found           \* find_bundles_under: the list returned

signVars == <<stack, calls, tempFiles, tmpCount, removeFailed>>

argVars == <<keep_temp, new_bundle_id, profile, explicit_entitlements>>

pipeVars == <<td, todo, bundle_ids, modified, output_ipa, result>>

buildVars == <<require_app_identifier, extract_calls, selected, heap>>

adjustVars == <<ent, team_id, old_bundle_id, out>>

validateVars == <<profile_team_id, message>>

entVars == <<buildVars, adjustVars, validateVars>>

scanVars == <<id_args, id_result, found>>

vars == <<phase, fs, ent_by_bundle, raised, signVars, argVars, pipeVars, entVars, scanVars>>

----------------------------------------------------------------------------
(* Bounds *)

\* number of entries below the main application bundle
MaxNodes == 4
\* number of names in the longest path
MaxDepth == 5
\* number of entries below the main application bundle in a run of resign_ipa
MaxPayloadNodes == 3

----------------------------------------------------------------------------
(* The directory tree *)

\* Python's None, where a document may stand
None == [None |-> TRUE]

app_path == <<"Main.app">>

\* name.endswith(suffix) for the names of the model
Ext ==
    [n \in {"Main.app", "W.app", "V.app", "N.app"} |-> ".app"] @@
    [n \in {"S.appex", "T.appex"} |-> ".appex"] @@
    [n \in {"A.xpc"} |-> ".xpc"] @@
    [n \in {"F.framework", "g.framework"} |-> ".framework"] @@
    [n \in {"l.dylib", "d.dylib"} |-> ".dylib"] @@
    [n \in {"l.so"} |-> ".so"] @@
    [n \in {"PlugIns", "Watch", "Frameworks", "XPCServices", "Sub"} |-> ""]

Names == DOMAIN Ext

endswith(name, suffix) == Ext[name] = suffix

\* entries that are regular files; every other entry is a directory
FileNames == {"l.dylib", "l.so", "g.framework"}

\* the entries a directory of the given name may hold in the model
AllowedChildren(name) ==
    CASE Ext[name] \in {".app", ".appex", ".xpc"} ->
             {"PlugIns", "Watch", "Frameworks", "XPCServices", "N.app"}
      [] name = "PlugIns" -> {"S.appex", "T.appex"}
      [] name = "Watch" -> {"W.app", "Sub"}
      [] name = "Sub" -> {"V.app"}
      [] name = "Frameworks" ->
             {"F.framework", "l.dylib", "l.so", "g.framework", "d.dylib"}
      [] name = "XPCServices" -> {"A.xpc"}
      [] OTHER -> {}

Last(p) == p[Len(p)]

join(p, name) == Append(p, name)

isdir(p) == p \in fs /\ Last(p) \notin FileNames

isfile(p) == p \in fs /\ Last(p) \in FileNames

\* os.listdir(p), as a set: the order of a listing is arbitrary
listdir(p) == {q \in fs : Len(q) = Len(p) + 1 /\ SubSeq(q, 1, Len(p)) = p}

\* A lies strictly inside directory B
Inside(a, b) == Len(a) > Len(b) /\ SubSeq(a, 1, Len(b)) = b

----------------------------------------------------------------------------
(* Strings and entitlement documents *)

\* s.startswith(prefix)
startswith(s, prefix) ==
    Len(s) >= Len(prefix) /\ SubSeq(s, 1, Len(prefix)) = prefix

\* s[n:]
DropFirst(s, n) == SubSeq(s, n + 1, Len(s))

\* s.strip(), blanks being the only whitespace of the model
RECURSIVE lstrip(_)
lstrip(s) == IF s # <<>> /\ s[1] = " " THEN lstrip(DropFirst(s, 1)) ELSE s

RECURSIVE rstrip(_)
rstrip(s) ==
    IF s # <<>> /\ s[Len(s)] = " " THEN rstrip(SubSeq(s, 1, Len(s) - 1)) ELSE s

strip(s) == rstrip(lstrip(s))

\* "." in s
HasDot(s) == \E i \in 1..Len(s) : s[i] = "."

\* s.split(".", 1)[0]
RECURSIVE BeforeFirstDot(_)
BeforeFirstDot(s) ==
    IF s = <<>> \/ s[1] = "." THEN <<>>
    ELSE <<s[1]>> \o BeforeFirstDot(DropFirst(s, 1))

\* f"{team_id}.{bundle_id}"
TeamPrefix(team, bundle_id) == team \o <<".">> \o bundle_id

\* values of a document: a string, a list of values, or anything else
Str(s) == [t |-> "str", v |-> s]

List(l) == [t |-> "list", v |-> l]

Other == [t |-> "int", v |-> <<>>]

AppIdKeys == <<"application-identifier", "com.apple.application-identifier">>

KagKey == "keychain-access-groups"

\* a key no rule of the resolver looks at
OtherKey == "get-task-allow"

----------------------------------------------------------------------------
(* entitlements.py: adjust_entitlements_for_bundle *)

\* a variant that forgets what follows the old prefix
NewKag_DropsRemainder(kag, old_prefix, new_prefix) ==
    [i \in 1..Len(kag) |->
        IF kag[i].t = "str" /\ startswith(kag[i].v, old_prefix)
        THEN Str(new_prefix)
        ELSE kag[i]]

\* lines 37-41: the rewritten keychain-access-groups list
NewKag(kag, old_prefix, new_prefix) ==
    [i \in 1..Len(kag) |->
        IF kag[i].t = "str" /\ startswith(kag[i].v, old_prefix)
        THEN Str(new_prefix \o DropFirst(kag[i].v, Len(old_prefix)))
        ELSE kag[i]]

\* a variant without the early return of line 23
adjust_entitlements_for_bundle_Unguarded(e, team, old_id, new_id) ==
    LET new_prefix == TeamPrefix(team, new_id)
        old_prefix == TeamPrefix(team, old_id) IN
    [k \in DOMAIN e |->
        IF k = AppIdKeys[1] \/ k = AppIdKeys[2]
        THEN Str(new_prefix)
        ELSE IF k = KagKey /\ e[k].t = "list"
        THEN List(NewKag(e[k].v, old_prefix, new_prefix))
        ELSE e[k]]

adjust_entitlements_for_bundle(e, team, old_id, new_id) ==
    IF team = <<>> \/ old_id = new_id
    THEN e
    ELSE LET new_prefix == TeamPrefix(team, new_id)
             old_prefix == TeamPrefix(team, old_id) IN
         [k \in DOMAIN e |->
             IF k = AppIdKeys[1] \/ k = AppIdKeys[2]
             THEN Str(new_prefix)
             ELSE IF k = KagKey /\ e[k].t = "list"
             THEN List(NewKag(e[k].v, old_prefix, new_prefix))
             ELSE e[k]]

----------------------------------------------------------------------------
(* entitlements.py: validate_entitlements_for_bundle *)

Err(rule, key, idx) == [rule |-> rule, key |-> key, idx |-> idx]

\* a variant that takes the wrong side of the split
_team_id_from_app_identifier_AfterDot(value) ==
    IF value.t # "str" \/ ~HasDot(value.v) THEN <<>>
    ELSE strip(DropFirst(value.v, Len(BeforeFirstDot(value.v)) + 1))

_team_id_from_app_identifier(value) ==
    IF value.t # "str" \/ ~HasDot(value.v) THEN <<>>
    ELSE strip(BeforeFirstDot(value.v))

\* lines 73-77: the keys whose value is a non-blank string, in the code's order
AppIdPresent(e) ==
    SelectSeq(AppIdKeys, LAMBDA k : k \in DOMAIN e)

GoodAppId(e, k) == e[k].t = "str" /\ strip(e[k].v) # <<>>

\* a variant that stops looking after the first usable key
app_ids_keys_FirstOnly(e) ==
    LET ks == SelectSeq(AppIdPresent(e), LAMBDA k : GoodAppId(e, k)) IN
    IF ks = <<>> THEN <<>> ELSE <<ks[1]>>

\* app_ids: key -> stripped value
app_ids_keys(e) == SelectSeq(AppIdPresent(e), LAMBDA k : GoodAppId(e, k))

app_ids_value(e, k) == strip(e[k].v)

\* lines 89-94: the profile's team, else the first one an identifier yields
RECURSIVE FirstTeam(_, _)
FirstTeam(e, keys) ==
    IF keys = <<>> THEN <<>>
    ELSE LET t == _team_id_from_app_identifier(Str(app_ids_value(e, keys[1]))) IN
         IF t # <<>> THEN t ELSE FirstTeam(e, Tail(keys))

\* a variant that never infers the team from the document
ValidationTeam_ProfileOnly(e, profile_team) ==
    IF profile_team # <<>> THEN strip(profile_team) ELSE <<>>

ValidationTeam(e, profile_team) ==
    LET t == IF profile_team # <<>> THEN strip(profile_team) ELSE <<>> IN
    IF t # <<>> THEN t ELSE FirstTeam(e, app_ids_keys(e))

\* a variant that leaves the loop at the first item that is no string
KagItemErrors_FirstOnly(kag) ==
    LET badIdx == SelectSeq([i \in 1..Len(kag) |-> i], LAMBDA i : kag[i].t # "str") IN
    IF badIdx = <<>> THEN <<>>
    ELSE <<Err("keychain-access-groups item must be a string", KagKey, badIdx[1] - 1)>>

\* lines 109-111: one error for every item of the list that is not a string,
\* carrying the item's index as enumerate counts it
KagItemErrors(kag) ==
    LET badIdx == SelectSeq([i \in 1..Len(kag) |-> i], LAMBDA i : kag[i].t # "str") IN
    [i \in 1..Len(badIdx) |->
        Err("keychain-access-groups item must be a string", KagKey, badIdx[i] - 1)]

\* the errors list of validate_entitlements_for_bundle, in the order the code
\* appends to it; the function raises SystemExit iff the list is not empty
ValidationErrors(e, old_id, new_id, profile_team, require_app_id) ==
    IF e = None THEN <<>>
    ELSE
    LET keys == app_ids_keys(e)
        e1 == [i \in 1..Len(SelectSeq(AppIdPresent(e), LAMBDA k : ~GoodAppId(e, k))) |->
                  Err("must be a non-empty string",
                      SelectSeq(AppIdPresent(e), LAMBDA k : ~GoodAppId(e, k))[i], 0)]
        e2 == IF require_app_id /\ keys = <<>>
              THEN <<Err("missing application-identifier", "", 0)>> ELSE <<>>
        e3 == IF Cardinality({app_ids_value(e, keys[i]) : i \in 1..Len(keys)}) > 1
              THEN <<Err("must match", "", 0)>> ELSE <<>>
        team == ValidationTeam(e, profile_team)
        expected_app_id == IF team # <<>> /\ new_id # <<>>
                           THEN TeamPrefix(team, new_id) ELSE <<>>
        bad == IF expected_app_id # <<>>
               THEN SelectSeq(keys, LAMBDA k : app_ids_value(e, k) # expected_app_id)
               ELSE <<>>
        e4 == [i \in 1..Len(bad) |-> Err("mismatch", bad[i], 0)]
        hasKag == KagKey \in DOMAIN e
        kag == IF hasKag /\ e[KagKey].t = "list" THEN e[KagKey].v ELSE <<>>
        e5 == IF hasKag /\ e[KagKey].t # "list"
              THEN <<Err("keychain-access-groups must be an array", KagKey, 0)>> ELSE <<>>
        e6 == KagItemErrors(kag)
        old_prefix == TeamPrefix(team, old_id)
        e7 == IF /\ team # <<>> /\ old_id # <<>> /\ new_id # <<>> /\ old_id # new_id
                 /\ \E i \in 1..Len(kag) :
                       kag[i].t = "str" /\ startswith(kag[i].v, old_prefix)
              THEN <<Err("contains old bundle prefix", KagKey, 0)>> ELSE <<>>
    IN e1 \o e2 \o e3 \o e4 \o e5 \o e6 \o e7

----------------------------------------------------------------------------
(* codesign calls *)

\* entries that carry no signature: codesign --remove-signature exits with an
\* error on them
Unsigned == {"T.appex", "W.app", "A.xpc", "l.so"}

\* codesign --remove-signature, run with check=False: ok tells whether it
\* exited with 0, and nobody looks at it
RemoveCall(p) ==
    [op |-> "remove_signature", path |-> p, ent |-> FALSE, ok |-> Last(p) \notin Unsigned]

SignCall(p, withEnt, ok) == [op |-> "sign", path |-> p, ent |-> withEnt, ok |-> ok]

VerifyCall(p, ok) == [op |-> "verify", path |-> p, ent |-> FALSE, ok |-> ok]

----------------------------------------------------------------------------
(* sign_bundle_recursive *)

\* a new activation of sign_bundle_recursive(bundle_path), at its PlugIns loop
PlugInsTodo(bundle_path) ==
    LET plugins == join(bundle_path, "PlugIns") IN
    IF isdir(plugins)
    THEN {p \in listdir(plugins) : isdir(p) /\ endswith(Last(p), ".appex")}
    ELSE {}

NewFrame(bundle_path) ==
    [bundle_path |-> bundle_path, pc |-> "plugins", todo |-> PlugInsTodo(bundle_path),
     walk |-> <<>>, ent_path |-> 0, created |-> 0, pending |-> ""]

Top == stack[Len(stack)]

SetTop(f) == [stack EXCEPT ![Len(stack)] = f]

Pop == SubSeq(stack, 1, Len(stack) - 1)

Running == phase \in {"sign", "signing"} /\ stack # <<>>

\* lines 33-43: for each .appex directory under PlugIns, recurse
PlugInsLoop ==
    /\ Running /\ Top.pc = "plugins"
    /\ IF Top.todo # {}
       THEN \E p \in Top.todo :
                stack' = Append(SetTop([Top EXCEPT !.todo = @ \ {p}]), NewFrame(p))
       ELSE LET watch == join(Top.bundle_path, "Watch") IN
            stack' = SetTop([Top EXCEPT !.pc = "watch",
                                        !.walk = IF isdir(watch) THEN <<{watch}>> ELSE <<>>])
    /\ UNCHANGED <<phase, fs, ent_by_bundle, calls, tempFiles, tmpCount, removeFailed, raised, argVars, pipeVars, entVars, scanVars>>

\* the directories os.walk still has to list, after dropping exhausted levels
DropEmpty(w) ==
    IF w # <<>> /\ w[Len(w)] = {} THEN SubSeq(w, 1, Len(w) - 1) ELSE w

SubDirs(d) == {q \in listdir(d) : isdir(q)}

\* lines 45-55: os.walk(watch), recursing on every directory named *.app
WatchLoop ==
    /\ Running /\ Top.pc = "watch"
    /\ IF Top.todo # {}
       THEN \E p \in Top.todo :
                stack' = Append(SetTop([Top EXCEPT !.todo = @ \ {p}]), NewFrame(p))
       ELSE IF Top.walk # <<>>
       THEN \* os.walk yields the next directory, top-down
            LET w == Top.walk
                n == Len(w) IN
            \E d \in w[n] :
                LET rest == DropEmpty([w EXCEPT ![n] = @ \ {d}])
                    w2 == IF SubDirs(d) = {} THEN rest ELSE Append(rest, SubDirs(d)) IN
                stack' = SetTop([Top EXCEPT
                             !.walk = w2,
                             !.todo = {q \in SubDirs(d) : endswith(Last(q), ".app")}])
       ELSE LET frameworks == join(Top.bundle_path, "Frameworks") IN
            stack' = SetTop([Top EXCEPT
                         !.pc = "frameworks",
                         !.todo = IF isdir(frameworks)
                                  THEN {p \in listdir(frameworks) :
                                           isdir(p) /\ endswith(Last(p), ".framework")}
                                  ELSE {}])
    /\ UNCHANGED <<phase, fs, ent_by_bundle, calls, tempFiles, tmpCount, removeFailed, raised, argVars, pipeVars, entVars, scanVars>>

\* a variant in which the activation swallows the error and returns
Unwind_Swallowed(e) ==
    /\ stack' = Pop
    /\ raised' = raised

\* codesign.sign raised: the exception leaves every activation, none of which
\* catches it (the callers hold no try block around their loops)
Unwind(e) ==
    /\ stack' = <<>>
    /\ raised' = e

\* lines 57-68: remove the signature of and sign every framework, then every
\* dynamic library; no entitlements are passed
FrameworksLoop ==
    /\ Running /\ Top.pc \in {"frameworks", "dylibs"}
    /\ IF Top.todo # {}
       THEN \E p \in Top.todo, ok \in BOOLEAN :
                /\ calls' = calls \o <<RemoveCall(p), SignCall(p, FALSE, ok)>>
                /\ IF ok
                   THEN stack' = SetTop([Top EXCEPT !.todo = @ \ {p}]) /\ UNCHANGED raised
                   ELSE Unwind("RuntimeError")
       ELSE /\ UNCHANGED <<calls, raised>>
            /\ LET frameworks == join(Top.bundle_path, "Frameworks")
                   xpcs == join(Top.bundle_path, "XPCServices") IN
               IF Top.pc = "frameworks"
               THEN stack' = SetTop([Top EXCEPT
                         !.pc = "dylibs",
                         !.todo = IF isdir(frameworks)
                                  THEN {p \in listdir(frameworks) :
                                           /\ isfile(p)
                                           /\ \/ endswith(Last(p), ".dylib")
                                              \/ endswith(Last(p), ".so")}
                                  ELSE {}])
               ELSE stack' = SetTop([Top EXCEPT
                         !.pc = "xpcs",
                         !.todo = IF isdir(xpcs)
                                  THEN {p \in listdir(xpcs) :
                                           isdir(p) /\ endswith(Last(p), ".xpc")}
                                  ELSE {}])
    /\ UNCHANGED <<phase, fs, ent_by_bundle, tempFiles, tmpCount, removeFailed, argVars, pipeVars, entVars, scanVars>>

\* lines 70-80: for each .xpc directory under XPCServices, recurse
XPCServicesLoop ==
    /\ Running /\ Top.pc = "xpcs"
    /\ IF Top.todo # {}
       THEN \E p \in Top.todo :
                stack' = Append(SetTop([Top EXCEPT !.todo = @ \ {p}]), NewFrame(p))
       ELSE stack' = SetTop([Top EXCEPT !.pc = "own"])
    /\ UNCHANGED <<phase, fs, ent_by_bundle, calls, tempFiles, tmpCount, removeFailed, raised, argVars, pipeVars, entVars, scanVars>>

\* a variant that falls back to the main bundle's entry
get_Inherited(p) ==
    IF p \in DOMAIN ent_by_bundle THEN ent_by_bundle[p]
    ELSE IF app_path \in DOMAIN ent_by_bundle THEN ent_by_bundle[app_path]
    ELSE None

\* entitlements_by_bundle.get(bundle_path)
get(p) == IF p \in DOMAIN ent_by_bundle THEN ent_by_bundle[p] ELSE None

\* codesign.write_entitlements: plistlib.dumps may raise before the file
\* exists, mkstemp creates the file, and writing it may raise afterwards
WriteOutcomes == {"ok", "dumps_failed", "write_failed"}

\* lines 82-87: remove the bundle's own signature, then write its entitlements
\* to a temporary file if it has any
SignSelfPrepare ==
    /\ Running /\ Top.pc = "own"
    /\ calls' = Append(calls, RemoveCall(Top.bundle_path))
    /\ IF get(Top.bundle_path) # None
       THEN \E o \in WriteOutcomes :
               /\ tmpCount' = IF o = "dumps_failed" THEN tmpCount ELSE tmpCount + 1
               /\ tempFiles' = IF o = "dumps_failed" THEN tempFiles
                               ELSE tempFiles \cup {tmpCount + 1}
               /\ stack' = SetTop([Top EXCEPT
                              !.pc = IF o = "ok" THEN "sign" ELSE "finally",
                              !.ent_path = IF o = "ok" THEN tmpCount + 1 ELSE 0,
                              !.created = IF o = "dumps_failed" THEN 0 ELSE tmpCount + 1,
                              !.pending = CASE o = "ok" -> ""
                                            [] o = "dumps_failed" -> "TypeError"
                                            [] o = "write_failed" -> "OSError"])
       ELSE /\ stack' = SetTop([Top EXCEPT !.pc = "sign"])
            /\ UNCHANGED <<tempFiles, tmpCount>>
    /\ UNCHANGED <<phase, fs, ent_by_bundle, removeFailed, raised, argVars, pipeVars, entVars, scanVars>>

\* a variant that gives up on a bundle whose signature could not be removed
SignSelf_NeedsRemoval ==
    /\ Running /\ Top.pc = "sign"
    /\ IF calls[Len(calls)].op = "remove_signature" /\ ~calls[Len(calls)].ok
       THEN /\ stack' = SetTop([Top EXCEPT !.pc = "finally"])
            /\ UNCHANGED calls
       ELSE \E ok \in BOOLEAN :
               /\ calls' = Append(calls, SignCall(Top.bundle_path, Top.ent_path # 0, ok))
               /\ stack' = SetTop([Top EXCEPT !.pc = "finally",
                                              !.pending = IF ok THEN "" ELSE "RuntimeError"])
    /\ UNCHANGED <<phase, fs, ent_by_bundle, tempFiles, tmpCount, removeFailed, raised, argVars, pipeVars, entVars, scanVars>>

\* line 91: codesign.sign(bundle_path, identity, entitlements_path=ent_path)
SignSelf ==
    /\ Running /\ Top.pc = "sign"
    /\ \E ok \in BOOLEAN :
          /\ calls' = Append(calls, SignCall(Top.bundle_path, Top.ent_path # 0, ok))
          /\ stack' = SetTop([Top EXCEPT !.pc = "finally",
                                         !.pending = IF ok THEN "" ELSE "RuntimeError"])
    /\ UNCHANGED <<phase, fs, ent_by_bundle, tempFiles, tmpCount, removeFailed, raised, argVars, pipeVars, entVars, scanVars>>

\* lines 92-97: the finally block removes the file named by ent_path, ignoring
\* OSError, and then the activation returns or the pending exception goes on
SignSelfFinally ==
    /\ Running /\ Top.pc = "finally"
    /\ IF Top.ent_path # 0 /\ Top.ent_path \in tempFiles
       THEN \E removed \in BOOLEAN :
               /\ tempFiles' = IF removed THEN tempFiles \ {Top.ent_path} ELSE tempFiles
               /\ removeFailed' = IF removed THEN removeFailed
                                  ELSE removeFailed \cup {Top.ent_path}
       ELSE UNCHANGED <<tempFiles, removeFailed>>
    /\ IF Top.pending = ""
       THEN stack' = Pop /\ UNCHANGED raised
       ELSE Unwind(Top.pending)
    /\ UNCHANGED <<phase, fs, ent_by_bundle, calls, tmpCount, argVars, pipeVars, entVars, scanVars>>

SignStep ==
    \/ PlugInsLoop
    \/ WatchLoop
    \/ FrameworksLoop
    \/ XPCServicesLoop
    \/ SignSelfPrepare
    \/ SignSelf
    \/ SignSelfFinally

----------------------------------------------------------------------------
(* The inputs of a run: a tree and an entitlements map *)

EntDoc == (OtherKey :> Other)

\* one more entry in the unpacked tree
AddNode ==
    /\ phase = "setup"
    /\ Cardinality(fs) <= MaxNodes
    /\ \E p \in fs :
         \E n \in AllowedChildren(Last(p)) :
            /\ Len(p) < MaxDepth
            /\ join(p, n) \notin fs
            /\ fs' = fs \cup {join(p, n)}
    /\ UNCHANGED <<phase, ent_by_bundle, raised, signVars, argVars, pipeVars, entVars, scanVars>>

\* sign_bundle_recursive(app_path, identity, entitlements_by_bundle), the map
\* holding a document or None for any of the signable paths
CallSignBundleRecursive ==
    /\ phase = "setup"
    /\ phase' = "sign"
    /\ stack' = <<NewFrame(app_path)>>
    /\ \E S \in SUBSET {p \in fs : Ext[Last(p)] # ""} :
          \E N \in SUBSET S :
             ent_by_bundle' = [p \in S |-> IF p \in N THEN None ELSE EntDoc]
    /\ UNCHANGED <<fs, calls, tempFiles, tmpCount, removeFailed, raised, argVars, pipeVars, entVars, scanVars>>

\* nothing has been signed
SignIdle ==
    /\ stack = <<>>
    /\ calls = <<>>
    /\ tempFiles = {}
    /\ tmpCount = 0
    /\ removeFailed = {}

\* resign_ipa has not been called
PipelineIdle ==
    /\ keep_temp = FALSE
    /\ td = ""
    /\ modified = {}
    /\ output_ipa = FALSE

\* build_entitlements_by_bundle has not been called
BuildIdle ==
    /\ require_app_identifier = FALSE
    /\ extract_calls = <<>>
    /\ selected = <<>>
    /\ heap = <<>>

\* adjust_entitlements_for_bundle has not been called
AdjustIdle ==
    /\ ent = None
    /\ team_id = <<>>
    /\ old_bundle_id = <<>>
    /\ out = None

\* validate_entitlements_for_bundle has not been called
ValidateIdle ==
    /\ profile_team_id = <<>>
    /\ message = None

\* nothing of bundle_scan.py has been called
ScanIdle ==
    /\ id_args = None
    /\ id_result = None
    /\ found = <<>>

InitTree ==
    /\ phase = "setup"
    /\ fs = {app_path}
    /\ ent_by_bundle = <<>>
    /\ raised = ""
    /\ result = ""
    /\ new_bundle_id = <<>>
    /\ profile = None
    /\ explicit_entitlements = None
    /\ todo = {}
    /\ bundle_ids = <<>>
    /\ SignIdle
    /\ PipelineIdle
    /\ BuildIdle
    /\ AdjustIdle
    /\ ValidateIdle
    /\ ScanIdle

NextSign == AddNode \/ CallSignBundleRecursive \/ SignStep

\* sign_bundle_recursive called on its own, on any tree and map
SpecSign == InitTree /\ [][NextSign]_vars

----------------------------------------------------------------------------
(* ipa.py: resign_ipa and _resign_ipa_in_tempdir *)

\* len(name), for the sort key of _find_bundles_under
NameLen ==
    [n \in Names |->
        CASE n \in {"Sub"} -> 3
          [] n \in {"l.so"} -> 4
          [] n \in {"W.app", "V.app", "N.app", "A.xpc", "Watch"} -> 5
          [] n \in {"S.appex", "T.appex", "l.dylib", "d.dylib", "PlugIns"} -> 7
          [] n \in {"Main.app"} -> 8
          [] n \in {"Frameworks"} -> 10
          [] n \in {"F.framework", "g.framework", "XPCServices"} -> 11]

\* len(p) of the path string, up to the length of the common prefix
RECURSIVE PathLen(_)
PathLen(p) ==
    IF p = <<>> THEN 0 ELSE NameLen[p[1]] + 1 + PathLen(Tail(p))

\* _find_bundles_under(app_path), as a set: os.walk reports the directories
\* below app_path, so app_path itself is not among them
_find_bundles_under(root) ==
    {p \in fs : /\ Inside(p, root)
                /\ isdir(p)
                /\ \/ endswith(Last(p), ".app")
                   \/ endswith(Last(p), ".appex")
                   \/ endswith(Last(p), ".xpc")}

\* the bundles that may come next in the sorted list: the shortest paths left
NextInOrder(S) == {p \in S : \A q \in S : PathLen(p) <= PathLen(q)}

old_main_id == <<"a">>

\* CFBundleIdentifier of a nested bundle's Info.plist (<<>>: none readable)
CFBundleIdentifier ==
    [n \in Names |->
        CASE n = "S.appex" -> <<"a", ".", "s">>
          [] n = "T.appex" -> <<"a", "s">>
          [] n = "A.xpc" -> <<"a", ".", "x">>
          [] n = "W.app" -> <<"c">>
          [] n = "V.app" -> <<"a">>
          [] OTHER -> <<>>]

_bundle_new_id_for(old_id, old_main, new_main) ==
    IF new_main = <<>> THEN old_id
    ELSE IF old_id = old_main THEN new_main
    ELSE IF startswith(old_id, old_main \o <<".">>)
         THEN new_main \o DropFirst(old_id, Len(old_main))
    ELSE old_id

\* ipa.py carries its own copy of the rewrite
_adjust_entitlements_for_bundle(e, team, old_id, new_id) ==
    IF team = <<>> \/ old_id = new_id
    THEN e
    ELSE LET new_prefix == TeamPrefix(team, new_id)
             old_prefix == TeamPrefix(team, old_id) IN
         [k \in DOMAIN e |->
             IF k = AppIdKeys[1] \/ k = AppIdKeys[2]
             THEN Str(new_prefix)
             ELSE IF k = KagKey /\ e[k].t = "list"
             THEN List(NewKag(e[k].v, old_prefix, new_prefix))
             ELSE e[k]]

Team == <<"T">>

\* documents a run of resign_ipa meets
SignedDoc ==
    (AppIdKeys[1] :> Str(TeamPrefix(Team, old_main_id))) @@
    (KagKey :> List(<<Str(TeamPrefix(Team, old_main_id))>>))

ExplicitDoc ==
    (AppIdKeys[1] :> Str(TeamPrefix(Team, old_main_id))) @@
    (AppIdKeys[2] :> Str(TeamPrefix(Team, <<"c">>)))

ProfileDoc == (AppIdKeys[1] :> Str(TeamPrefix(Team, <<"*">>)))

TheProfile == [team_id |-> Team, entitlements |-> ProfileDoc]

\* an exception raised inside the try block of resign_ipa
Raise(e) ==
    /\ phase' = "finally"
    /\ raised' = e

\* lines 243-252: the checks before the try block, and the temporary directory
resign_ipa ==
    /\ phase = "setup"
    /\ Cardinality(fs) <= MaxPayloadNodes + 1
    /\ \E kt \in BOOLEAN, nid \in {<<>>, <<"b">>}, pr \in {None, TheProfile},
          ex \in {None, ExplicitDoc}, pre \in {"ok", "SystemExit", "RuntimeError"} :
          /\ keep_temp' = kt
          /\ new_bundle_id' = nid
          /\ profile' = pr
          /\ explicit_entitlements' = ex
          /\ IF pre = "ok"
             THEN /\ td' = "exists"
                  /\ phase' = "unzip"
                  /\ UNCHANGED <<raised, result>>
             ELSE \* profile or entitlements file not found, or the profile
                  \* cannot be decoded: raised before the try block
                  /\ pre = "RuntimeError" => pr # None
                  /\ phase' = "done"
                  /\ raised' = pre
                  /\ result' = "raised"
                  /\ UNCHANGED td
    /\ UNCHANGED <<fs, ent_by_bundle, signVars, todo, bundle_ids, modified, output_ipa, entVars, scanVars>>

\* lines 320-349: unpack, find Payload, the main bundle and its identifier
Unpack ==
    /\ phase = "unzip"
    /\ \E o \in {"ok", "unzip_failed", "no_payload", "no_app", "no_main_id"} :
          IF o = "ok"
          THEN /\ phase' = "plists"
               /\ todo' = _find_bundles_under(app_path)
               /\ UNCHANGED raised
          ELSE /\ Raise(IF o = "unzip_failed" THEN "RuntimeError" ELSE "SystemExit")
               /\ UNCHANGED todo
    /\ UNCHANGED <<fs, ent_by_bundle, signVars, argVars, td, bundle_ids, modified,
                   output_ipa, result, entVars, scanVars>>

\* lines 359-402: rewrite the Info.plist of the next bundle; after the last
\* one, embed the profile and load the explicit entitlements
EditInfoPlist ==
    /\ phase = "plists"
    /\ IF todo # {}
       THEN \E b \in NextInOrder(todo) :
               LET old_id == CFBundleIdentifier[Last(b)]
                   new_id == _bundle_new_id_for(old_id, old_main_id, new_bundle_id) IN
               /\ todo' = todo \ {b}
               /\ IF old_id = <<>>
                  THEN UNCHANGED <<bundle_ids, modified>>
                  ELSE /\ bundle_ids' = (b :> <<old_id, new_id>>) @@ bundle_ids
                       /\ modified' = modified \cup {b}
               /\ UNCHANGED phase
       ELSE /\ phase' = "entitlements"
            /\ todo' = _find_bundles_under(app_path)
            /\ modified' = IF profile # None THEN modified \cup {app_path} ELSE modified
            /\ UNCHANGED bundle_ids
    /\ UNCHANGED <<fs, ent_by_bundle, raised, signVars, argVars, td, output_ipa, result,
                   entVars, scanVars>>

\* lines 404-435: the entry of the next bundle; after the last one, start
\* signing from the main bundle
ResolveEntitlements ==
    /\ phase = "entitlements"
    /\ IF todo # {}
       THEN \E b \in NextInOrder(todo), extracted \in {None, SignedDoc} :
               LET e1 == IF extracted = None /\ profile # None
                         THEN profile.entitlements ELSE extracted
                   e2 == IF profile # None /\ b \in DOMAIN bundle_ids
                         THEN _adjust_entitlements_for_bundle(
                                  e1, profile.team_id, bundle_ids[b][1], bundle_ids[b][2])
                         ELSE e1 IN
               /\ todo' = todo \ {b}
               /\ ent_by_bundle' =
                     (b :> IF explicit_entitlements # None THEN explicit_entitlements
                           ELSE IF e1 = None THEN None ELSE e2) @@ ent_by_bundle
               /\ explicit_entitlements # None => extracted = None
               /\ UNCHANGED <<phase, stack>>
       ELSE /\ phase' = "signing"
            /\ stack' = <<NewFrame(app_path)>>
            /\ UNCHANGED <<todo, ent_by_bundle>>
    /\ UNCHANGED <<fs, raised, calls, tempFiles, tmpCount, removeFailed, argVars, td,
                   bundle_ids, modified, output_ipa, result, entVars, scanVars>>

\* a variant in which the result of the verification is not looked at
Verify_Unchecked ==
    /\ phase = "signing" /\ stack = <<>> /\ raised = ""
    /\ \E ok \in BOOLEAN :
          /\ calls' = Append(calls, VerifyCall(app_path, ok))
          /\ phase' = "zip"
          /\ UNCHANGED raised
    /\ UNCHANGED <<fs, ent_by_bundle, stack, tempFiles, tmpCount, removeFailed, argVars,
                   pipeVars, entVars, scanVars>>

\* line 436: codesign.verify(app_path), once the signing walk has returned
Verify ==
    /\ phase = "signing" /\ stack = <<>> /\ raised = ""
    /\ \E ok \in BOOLEAN :
          /\ calls' = Append(calls, VerifyCall(app_path, ok))
          /\ IF ok THEN phase' = "zip" /\ UNCHANGED raised
             ELSE Raise("RuntimeError")
    /\ UNCHANGED <<fs, ent_by_bundle, stack, tempFiles, tmpCount, removeFailed, argVars,
                   pipeVars, entVars, scanVars>>

\* lines 440-443: write the output archive
Zip ==
    /\ phase = "zip"
    /\ \E ok \in BOOLEAN :
          IF ok THEN /\ output_ipa' = TRUE
                     /\ phase' = "finally"
                     /\ UNCHANGED raised
          ELSE Raise("RuntimeError") /\ UNCHANGED output_ipa
    /\ UNCHANGED <<fs, ent_by_bundle, signVars, argVars, td, todo, bundle_ids, modified,
                   result, entVars, scanVars>>

\* a variant whose finally clause leaves the temporary directory in place
Finally_KeepsDirectory ==
    /\ \/ phase = "finally"
       \/ phase = "signing" /\ stack = <<>> /\ raised # ""
    /\ phase' = "done"
    /\ result' = IF keep_temp \/ raised = "" THEN "returned" ELSE "raised"
    /\ UNCHANGED <<fs, ent_by_bundle, raised, signVars, argVars, td, todo, bundle_ids,
                   modified, output_ipa, entVars, scanVars>>

\* lines 291-299: the except clause re-raises; the finally clause returns when
\* keep_temp is set, which discards an exception in flight, and otherwise
\* removes the temporary directory and lets the exception go on
Finally ==
    /\ \/ phase = "finally"
       \/ phase = "signing" /\ stack = <<>> /\ raised # ""
    /\ phase' = "done"
    /\ IF keep_temp
       THEN /\ result' = "returned"
            /\ UNCHANGED td
       ELSE /\ td' = "removed"
            /\ result' = IF raised # "" THEN "raised" ELSE "returned"
    /\ UNCHANGED <<fs, ent_by_bundle, raised, signVars, argVars, todo, bundle_ids,
                   modified, output_ipa, entVars, scanVars>>

Next ==
    \/ AddNode
    \/ resign_ipa
    \/ Unpack
    \/ EditInfoPlist
    \/ ResolveEntitlements
    \/ SignStep
    \/ Verify
    \/ Zip
    \/ Finally

\* a run of resign_ipa on any small tree
Spec == InitTree /\ [][Next]_vars

----------------------------------------------------------------------------
(* entitlements.py: build_entitlements_by_bundle *)

\* number of bundles passed to build_entitlements_by_bundle
MaxBundles == 2
\* length of the longest keychain-access-groups list
MaxKag == 2

Absent == [t |-> "absent", v |-> <<>>]

\* the document with the given values; Absent leaves the key out
MakeDoc(a1, a2, kag) ==
    [k \in {OtherKey} \cup (IF a1 # Absent THEN {AppIdKeys[1]} ELSE {})
                      \cup (IF a2 # Absent THEN {AppIdKeys[2]} ELSE {})
                      \cup (IF kag # Absent THEN {KagKey} ELSE {}) |->
        CASE k = AppIdKeys[1] -> a1
          [] k = AppIdKeys[2] -> a2
          [] k = KagKey -> kag
          [] OTHER -> Other]

idA == <<"a">>
idB == <<"b">>
idAS == <<"a", ".", "s">>
idBS == <<"b", ".", "s">>

BuildDocs ==
    {MakeDoc(a1, a2, kag) :
        a1 \in {Absent, Str(TeamPrefix(Team, idA)), Str(TeamPrefix(Team, idB))},
        a2 \in {Absent, Str(TeamPrefix(Team, idA))},
        kag \in {Absent, List(<<Str(TeamPrefix(Team, idAS))>>),
                 List(<<Str(TeamPrefix(Team, <<"c">>))>>)}}

ExtractDocs ==
    {MakeDoc(Str(TeamPrefix(Team, idA)), Absent, Absent),
     MakeDoc(Str(TeamPrefix(Team, idB)), Absent, List(<<Str(TeamPrefix(Team, idAS))>>)),
     MakeDoc(Absent, Absent, List(<<Str(TeamPrefix(Team, <<"c">>))>>))}

BuildProfiles ==
    [team_id : {<<>>, Team},
     entitlements : {ProfileDoc,
                     MakeDoc(Str(TeamPrefix(Team, idA)), Absent,
                             List(<<Str(TeamPrefix(Team, idAS))>>))}]

BundleSeq ==
    <<app_path, <<"Main.app", "PlugIns", "S.appex">>, <<"Main.app", "XPCServices", "A.xpc">>>>

\* the bundles argument
bundles == SubSeq(BundleSeq, 1, MaxBundles)

BundleSet == {bundles[i] : i \in 1..Len(bundles)}

BuildIdPairs == {<<idA, idA>>, <<idA, idB>>, <<idAS, idBS>>}

\* the bundle the loop of line 140 handles next
NextBundle == bundles[CHOOSE i \in 1..Len(bundles) :
                         /\ bundles[i] \in todo
                         /\ \A j \in 1..(i - 1) : bundles[j] \notin todo]

\* a variant that asks the profile before the signature
SelectSource_ProfileFirst(explicit, extracted, prof) ==
    IF explicit # None THEN explicit
    ELSE IF prof # None THEN prof.entitlements
    ELSE extracted

\* lines 143-148: the source document of a bundle, extracted being what
\* extract_entitlements returned for it
SelectSource(explicit, extracted, prof) ==
    IF explicit # None THEN explicit
    ELSE IF extracted = None /\ prof # None THEN prof.entitlements
    ELSE extracted

\* lines 140-173: one pass of the loop over the bundles; the function returns
\* after the last bundle and raises when the validation of a bundle fails
BuildStep ==
    /\ phase = "build"
    /\ todo # {}
    /\ LET b == NextBundle IN
       \E extracted \in {None} \cup ExtractDocs :
          /\ explicit_entitlements # None => extracted = None
          /\ extract_calls' = IF explicit_entitlements # None THEN extract_calls
                              ELSE (b :> extracted) @@ extract_calls
          /\ LET src == SelectSource(explicit_entitlements, extracted, profile)
                 adjusted ==
                     IF profile # None /\ b \in DOMAIN bundle_ids
                     THEN adjust_entitlements_for_bundle(
                              src, profile.team_id, bundle_ids[b][1], bundle_ids[b][2])
                     ELSE src
                 errors ==
                     IF b \in DOMAIN bundle_ids
                     THEN ValidationErrors(
                              adjusted, bundle_ids[b][1], bundle_ids[b][2],
                              IF profile # None THEN profile.team_id ELSE <<>>,
                              require_app_identifier)
                     ELSE <<>> IN
             /\ selected' = (b :> src) @@ selected
             /\ IF src = None
                THEN /\ ent_by_bundle' = (b :> None) @@ ent_by_bundle
                     /\ todo' = todo \ {b}
                     /\ phase' = IF todo = {b} THEN "done" ELSE phase
                     /\ result' = IF todo = {b} THEN "returned" ELSE result
                     /\ UNCHANGED raised
                ELSE IF errors # <<>>
                THEN /\ raised' = "SystemExit"
                     /\ result' = "raised"
                     /\ phase' = "done"
                     /\ UNCHANGED <<ent_by_bundle, todo>>
                ELSE /\ ent_by_bundle' = (b :> adjusted) @@ ent_by_bundle
                     /\ todo' = todo \ {b}
                     /\ phase' = IF todo = {b} THEN "done" ELSE phase
                     /\ result' = IF todo = {b} THEN "returned" ELSE result
                     /\ UNCHANGED raised
    /\ UNCHANGED <<fs, signVars, keep_temp, new_bundle_id, profile, explicit_entitlements,
                   td, bundle_ids, modified, output_ipa, require_app_identifier, heap,
                   adjustVars, validateVars, scanVars>>

\* build_entitlements_by_bundle is called with any of the inputs
InitBuild ==
    /\ phase = "build"
    /\ fs = {app_path}
    /\ ent_by_bundle = <<>>
    /\ raised = ""
    /\ result = ""
    /\ new_bundle_id = <<>>
    /\ profile \in {None} \cup BuildProfiles
    /\ explicit_entitlements \in {None} \cup BuildDocs
    /\ todo = BundleSet
    /\ \E S \in SUBSET BundleSet : bundle_ids \in [S -> BuildIdPairs]
    /\ SignIdle
    /\ PipelineIdle
    /\ require_app_identifier \in BOOLEAN
    /\ extract_calls = <<>>
    /\ selected = <<>>
    /\ heap = <<>>
    /\ AdjustIdle
    /\ ValidateIdle
    /\ ScanIdle

SpecBuild == InitBuild /\ [][BuildStep]_vars

----------------------------------------------------------------------------
(* build_entitlements_by_bundle with the identity of the dict objects *)

\* a dict object: the explicit document, the profile's entitlements, what
\* extract_entitlements returned for a bundle, the copy of the profile's
\* entitlements made for a bundle, or the dict the rewrite made for a bundle
Obj(kind, b) == [kind |-> kind, of |-> b]

\* a variant that rewrites the dict it was given
AdjustObject_InPlace(h, r, fresh, team, old_id, new_id) ==
    IF team = <<>> \/ old_id = new_id
    THEN [heap |-> h, ref |-> r]
    ELSE [heap |-> [h EXCEPT ![r] = adjust_entitlements_for_bundle(h[r], team, old_id, new_id)],
          ref |-> r]

\* adjust_entitlements_for_bundle on the object r: lines 23-24 return the
\* object itself, line 26 makes a new dict and the rewrite goes to that one
AdjustObject(h, r, fresh, team, old_id, new_id) ==
    IF team = <<>> \/ old_id = new_id
    THEN [heap |-> h, ref |-> r]
    ELSE [heap |-> (fresh :> adjust_entitlements_for_bundle(h[r], team, old_id, new_id)) @@ h,
          ref |-> fresh]

\* lines 140-173 with objects: ent_by_bundle and selected hold the object of
\* each bundle, None where the bundle has no document
ShareStep ==
    /\ phase = "resolve"
    /\ todo # {}
    /\ LET b == NextBundle IN
       \E extracted \in {None} \cup ExtractDocs :
          /\ explicit_entitlements # None => extracted = None
          /\ extract_calls' = IF explicit_entitlements # None THEN extract_calls
                              ELSE (b :> extracted) @@ extract_calls
          /\ LET src == IF explicit_entitlements # None THEN Obj("explicit", <<>>)
                        ELSE IF extracted # None THEN Obj("extracted", b)
                        ELSE IF profile # None THEN Obj("copy", b)
                        ELSE None
                 h1 == IF src = Obj("extracted", b) THEN (src :> extracted) @@ heap
                       ELSE IF src = Obj("copy", b)
                       THEN (src :> heap[Obj("profile", <<>>)]) @@ heap
                       ELSE heap
                 adjusted ==
                     IF src # None /\ profile # None /\ b \in DOMAIN bundle_ids
                     THEN AdjustObject(h1, src, Obj("rewritten", b), profile.team_id,
                                       bundle_ids[b][1], bundle_ids[b][2])
                     ELSE [heap |-> h1, ref |-> src]
                 errors ==
                     IF src # None /\ b \in DOMAIN bundle_ids
                     THEN ValidationErrors(
                              adjusted.heap[adjusted.ref], bundle_ids[b][1], bundle_ids[b][2],
                              IF profile # None THEN profile.team_id ELSE <<>>,
                              require_app_identifier)
                     ELSE <<>> IN
             /\ selected' = (b :> src) @@ selected
             /\ heap' = adjusted.heap
             /\ IF errors # <<>>
                THEN /\ raised' = "SystemExit"
                     /\ result' = "raised"
                     /\ phase' = "resolved"
                     /\ UNCHANGED <<ent_by_bundle, todo>>
                ELSE /\ ent_by_bundle' = (b :> adjusted.ref) @@ ent_by_bundle
                     /\ todo' = todo \ {b}
                     /\ phase' = IF todo = {b} THEN "resolved" ELSE phase
                     /\ result' = IF todo = {b} THEN "returned" ELSE result
                     /\ UNCHANGED raised
    /\ UNCHANGED <<fs, signVars, keep_temp, new_bundle_id, profile, explicit_entitlements,
                   td, bundle_ids, modified, output_ipa, require_app_identifier,
                   adjustVars, validateVars, scanVars>>

\* the objects that exist when build_entitlements_by_bundle is called
InitShare ==
    /\ phase = "resolve"
    /\ fs = {app_path}
    /\ ent_by_bundle = <<>>
    /\ raised = ""
    /\ result = ""
    /\ new_bundle_id = <<>>
    /\ profile \in {None} \cup BuildProfiles
    /\ explicit_entitlements \in {None} \cup BuildDocs
    /\ todo = BundleSet
    /\ \E S \in SUBSET BundleSet : bundle_ids \in [S -> BuildIdPairs]
    /\ SignIdle
    /\ PipelineIdle
    /\ require_app_identifier \in BOOLEAN
    /\ extract_calls = <<>>
    /\ selected = <<>>
    /\ heap = [o \in {Obj("explicit", <<>>) : x \in {explicit_entitlements} \ {None}}
                    \cup {Obj("profile", <<>>) : x \in {profile} \ {None}} |->
                  IF o.kind = "explicit" THEN explicit_entitlements
                  ELSE profile.entitlements]
    /\ AdjustIdle
    /\ ValidateIdle
    /\ ScanIdle

SpecShare == InitShare /\ [][ShareStep]_vars

----------------------------------------------------------------------------
(* adjust_entitlements_for_bundle on its own *)

AppIdValues ==
    {Absent, Other, Str(TeamPrefix(Team, idA)), Str(TeamPrefix(Team, idB)),
     Str(<<"U", ".", "a">>)}

KagItems ==
    {Other, Str(TeamPrefix(Team, idA)), Str(TeamPrefix(Team, idAS)),
     Str(<<"T", ".", "a", "s">>), Str(<<"T", ".", "c">>)}

KagLists == UNION {[1..n -> KagItems] : n \in 0..MaxKag}

Docs ==
    {MakeDoc(a1, a2, kag) :
        a1 \in AppIdValues, a2 \in AppIdValues,
        kag \in {Absent, Other} \cup {List(l) : l \in KagLists}}

Ids == {idA, idB, idAS, <<"a", ".", "b">>}

Adjust ==
    /\ phase = "adjust"
    /\ out' = adjust_entitlements_for_bundle(ent, team_id, old_bundle_id, new_bundle_id)
    /\ phase' = "adjusted"
    /\ UNCHANGED <<fs, ent_by_bundle, raised, signVars, argVars, pipeVars, buildVars,
                   ent, team_id, old_bundle_id, validateVars, scanVars>>

InitAdjust ==
    /\ phase = "adjust"
    /\ fs = {app_path}
    /\ ent_by_bundle = <<>>
    /\ raised = ""
    /\ result = ""
    /\ new_bundle_id \in Ids
    /\ profile = None
    /\ explicit_entitlements = None
    /\ todo = {}
    /\ bundle_ids = <<>>
    /\ SignIdle
    /\ PipelineIdle
    /\ BuildIdle
    /\ ent \in Docs
    /\ team_id \in {<<>>, Team}
    /\ old_bundle_id \in Ids
    /\ out = None
    /\ ValidateIdle
    /\ ScanIdle

\* the caller hands the returned document to the function once more, with the
\* same team and identifiers
AdjustAgain ==
    /\ phase = "adjusted"
    /\ ent' = out
    /\ out' = adjust_entitlements_for_bundle(out, team_id, old_bundle_id, new_bundle_id)
    /\ phase' = "readjusted"
    /\ UNCHANGED <<fs, ent_by_bundle, raised, signVars, argVars, pipeVars, buildVars,
                   team_id, old_bundle_id, validateVars, scanVars>>

\* build_entitlements_by_bundle, lines 153-171: the document returned is
\* validated with the same team and identifiers, not in strict mode
ValidateAdjusted ==
    /\ phase = "adjusted"
    /\ LET errors == ValidationErrors(out, old_bundle_id, new_bundle_id, team_id, FALSE) IN
       IF errors # <<>>
       THEN /\ message' = [bundle_path |-> app_path, detail |-> errors]
            /\ raised' = "SystemExit"
            /\ result' = "raised"
       ELSE /\ result' = "returned"
            /\ UNCHANGED <<message, raised>>
    /\ phase' = "checked"
    /\ UNCHANGED <<fs, ent_by_bundle, signVars, argVars, td, todo, bundle_ids, modified,
                   output_ipa, buildVars, adjustVars, profile_team_id, scanVars>>

NextAdjust == Adjust \/ AdjustAgain \/ ValidateAdjusted

SpecAdjust == InitAdjust /\ [][NextAdjust]_vars

----------------------------------------------------------------------------
(* entitlements.py: validate_entitlements_for_bundle on its own *)

\* values of an application-identifier key: none, not a string, empty, blank,
\* well formed, padded with a blank, of another team, without a "."
ValAppIds ==
    {Absent, Other, Str(<<>>), Str(<<" ">>),
     Str(TeamPrefix(Team, idA)), Str(TeamPrefix(Team, idB)),
     Str(<<" ">> \o TeamPrefix(Team, idB)), Str(TeamPrefix(<<"U">>, idB)), Str(idB)}

ValAppIds2 == {Absent, Other, Str(TeamPrefix(Team, idA)), Str(TeamPrefix(Team, idB))}

ValKagItems ==
    {Other, Str(TeamPrefix(Team, idA)), Str(TeamPrefix(Team, idAS)),
     Str(TeamPrefix(Team, <<"c">>))}

ValKagLists == UNION {[1..n -> ValKagItems] : n \in 0..MaxKag}

ValDocs ==
    {MakeDoc(a1, a2, kag) :
        a1 \in ValAppIds, a2 \in ValAppIds2,
        kag \in {Absent, Other} \cup {List(l) : l \in ValKagLists}}

ValIds == {<<>>, idA, idB}

ValTeams == {<<>>, Team, <<" ">> \o Team, <<" ">>}

\* validate_entitlements_for_bundle is called for a bundle with any of the inputs
InitValidate ==
    /\ phase = "validate"
    /\ fs = {app_path}
    /\ ent_by_bundle = <<>>
    /\ raised = ""
    /\ result = ""
    /\ new_bundle_id \in ValIds
    /\ profile = None
    /\ explicit_entitlements = None
    /\ todo = {app_path}
    /\ bundle_ids = <<>>
    /\ SignIdle
    /\ PipelineIdle
    /\ require_app_identifier \in BOOLEAN
    /\ extract_calls = <<>>
    /\ selected = <<>>
    /\ heap = <<>>
    /\ ent \in {None} \cup ValDocs
    /\ team_id = <<>>
    /\ old_bundle_id \in ValIds
    /\ out = None
    /\ profile_team_id \in ValTeams
    /\ message = None
    /\ ScanIdle

\* a variant that raises at the first violation it finds
Validate_FirstOnly ==
    /\ phase = "validate"
    /\ LET errors == ValidationErrors(ent, old_bundle_id, new_bundle_id,
                                      profile_team_id, require_app_identifier) IN
       IF errors # <<>>
       THEN /\ message' = [bundle_path |-> CHOOSE b \in todo : TRUE,
                           detail |-> <<Head(errors)>>]
            /\ raised' = "SystemExit"
            /\ result' = "raised"
       ELSE /\ result' = "returned"
            /\ UNCHANGED <<message, raised>>
    /\ phase' = "validated"
    /\ UNCHANGED <<fs, ent_by_bundle, signVars, argVars, td, todo, bundle_ids, modified,
                   output_ipa, buildVars, adjustVars, profile_team_id, scanVars>>

\* lines 64-125: the function returns, or raises one SystemExit whose message
\* names bundle_path and joins the errors collected
Validate ==
    /\ phase = "validate"
    /\ LET errors == ValidationErrors(ent, old_bundle_id, new_bundle_id,
                                      profile_team_id, require_app_identifier) IN
       IF errors # <<>>
       THEN /\ message' = [bundle_path |-> CHOOSE b \in todo : TRUE,
                           detail |-> errors]
            /\ raised' = "SystemExit"
            /\ result' = "raised"
       ELSE /\ result' = "returned"
            /\ UNCHANGED <<message, raised>>
    /\ phase' = "validated"
    /\ UNCHANGED <<fs, ent_by_bundle, signVars, argVars, td, todo, bundle_ids, modified,
                   output_ipa, buildVars, adjustVars, profile_team_id, scanVars>>

SpecValidate == InitValidate /\ [][Validate]_vars

----------------------------------------------------------------------------
(* bundle_scan.py: bundle_new_id_for *)

\* a variant that takes any identifier starting with the old main identifier
\* for one of its sub-identifiers
bundle_new_id_for_NoSeparator(old_id, old_main, new_main) ==
    IF new_main = <<>> THEN old_id
    ELSE IF old_id = old_main THEN new_main
    ELSE IF startswith(old_id, old_main)
         THEN new_main \o DropFirst(old_id, Len(old_main))
    ELSE old_id

bundle_new_id_for(old_id, old_main, new_main) ==
    IF new_main = <<>> THEN old_id
    ELSE IF old_id = old_main THEN new_main
    ELSE IF startswith(old_id, old_main \o <<".">>)
         THEN new_main \o DropFirst(old_id, Len(old_main))
    ELSE old_id

\* identifiers: empty, plain, with a sub-identifier, with a bare trailing dot,
\* and one that merely starts with the letters of another
IdStrings == {<<>>, idA, idB, idAS, <<"a", "s">>, <<"a", ".">>}

\* bundle_new_id_for is called with any of the identifiers
InitNewId ==
    /\ phase = "map"
    /\ fs = {app_path}
    /\ ent_by_bundle = <<>>
    /\ raised = ""
    /\ result = ""
    /\ new_bundle_id = <<>>
    /\ profile = None
    /\ explicit_entitlements = None
    /\ todo = {}
    /\ bundle_ids = <<>>
    /\ SignIdle
    /\ PipelineIdle
    /\ BuildIdle
    /\ AdjustIdle
    /\ ValidateIdle
    /\ id_args \in [old_id : IdStrings, old_main_id : IdStrings, new_main_id : IdStrings]
    /\ id_result = None
    /\ found = <<>>

MapIdentifier ==
    /\ phase = "map"
    /\ id_result' = bundle_new_id_for(id_args.old_id, id_args.old_main_id,
                                      id_args.new_main_id)
    /\ phase' = "mapped"
    /\ UNCHANGED <<fs, ent_by_bundle, raised, signVars, argVars, pipeVars, entVars,
                   id_args, found>>

SpecNewId == InitNewId /\ [][MapIdentifier]_vars

----------------------------------------------------------------------------
(* bundle_scan.py: find_bundles_under *)

\* line 66: the sort key of a path, as <<rank, length>>
SortKey(p, root) == <<IF p = root THEN 0 ELSE 1, PathLen(p)>>

KeyLeq(a, b) == a[1] < b[1] \/ (a[1] = b[1] /\ a[2] <= b[2])

\* the lists a sort by the key can give: os.walk reports the directories of
\* one level in any order, so paths with equal keys come in any order
RECURSIVE SortedOrders(_, _)
SortedOrders(S, root) ==
    IF S = {} THEN {<<>>}
    ELSE UNION {{<<p>> \o t : t \in SortedOrders(S \ {p}, root)} :
                   p \in {q \in S : \A r \in S : KeyLeq(SortKey(q, root), SortKey(r, root))}}

\* a variant that starts from an empty list
find_bundles_under_NoRoot(root) ==
    SortedOrders({p \in fs : /\ Inside(p, root)
                             /\ isdir(p)
                             /\ \/ endswith(Last(p), ".app")
                                \/ endswith(Last(p), ".appex")
                                \/ endswith(Last(p), ".xpc")}, root)

\* find_bundles_under(app_path): the lists the function can return
find_bundles_under(root) ==
    SortedOrders({root} \cup {p \in fs : /\ Inside(p, root)
                                         /\ isdir(p)
                                         /\ \/ endswith(Last(p), ".app")
                                            \/ endswith(Last(p), ".appex")
                                            \/ endswith(Last(p), ".xpc")}, root)

FindBundles ==
    /\ phase = "setup"
    /\ found' \in find_bundles_under(app_path)
    /\ phase' = "found"
    /\ UNCHANGED <<fs, ent_by_bundle, raised, signVars, argVars, pipeVars, entVars,
                   id_args, id_result>>

NextFind == AddNode \/ FindBundles

\* find_bundles_under called on any tree
SpecFind == InitTree /\ [][NextFind]_vars

----------------------------------------------------------------------------
(* Properties of the signing walk *)

CallIdx == 1..Len(calls)

SignCount(p) ==
    Cardinality({i \in CallIdx : calls[i].op = "sign" /\ calls[i].path = p})

\* C1: of two artifacts the walk handles, the one lying inside the other has
\* its signature removed and is signed before the outer one is touched; no call
\* on an artifact follows a call on a directory that contains it.
C1_ContainedBeforeContainer ==
    \A i, j \in CallIdx :
        (/\ i < j
         /\ calls[i].op \in {"remove_signature", "sign"}
         /\ calls[j].op \in {"remove_signature", "sign"})
        => ~Inside(calls[j].path, calls[i].path)

\* p is signed by the activation for bundle b; the activation recurses on it
\* unless it sits in Frameworks
ArtifactOf(b, p) ==
    \/ /\ Len(p) = Len(b) + 2
       /\ SubSeq(p, 1, Len(b) + 1) = join(b, "PlugIns")
       /\ isdir(p) /\ endswith(Last(p), ".appex")
    \/ /\ Inside(p, join(b, "Watch"))
       /\ isdir(p) /\ endswith(Last(p), ".app")
    \/ /\ Len(p) = Len(b) + 2
       /\ SubSeq(p, 1, Len(b) + 1) = join(b, "XPCServices")
       /\ isdir(p) /\ endswith(Last(p), ".xpc")

LibraryOf(b, p) ==
    /\ Len(p) = Len(b) + 2
    /\ SubSeq(p, 1, Len(b) + 1) = join(b, "Frameworks")
    /\ \/ isdir(p) /\ endswith(Last(p), ".framework")
       \/ isfile(p) /\ (endswith(Last(p), ".dylib") \/ endswith(Last(p), ".so"))

RECURSIVE SignableBundle(_)
SignableBundle(p) ==
    \/ p = app_path
    \/ \E k \in 1..(Len(p) - 1) :
          SignableBundle(SubSeq(p, 1, k)) /\ ArtifactOf(SubSeq(p, 1, k), p)

Signable(p) ==
    \/ SignableBundle(p)
    \/ \E k \in 1..(Len(p) - 1) :
          SignableBundle(SubSeq(p, 1, k)) /\ LibraryOf(SubSeq(p, 1, k), p)

SignReturned == phase = "sign" /\ stack = <<>> /\ raised = ""

\* C2: no path is signed twice, and when the walk returns every signable
\* artifact of the tree has been signed exactly once.
C2_SignedExactlyOnce ==
    /\ \A p \in fs : SignCount(p) <= 1
    /\ SignReturned => \A p \in fs : Signable(p) => SignCount(p) = 1

\* C5: a temporary entitlements file that exists belongs to the sign step in
\* progress, unless the operating system refused to remove it; and the error
\* of a failed sign call is the one that leaves the walk.
C5_TempFileReleased ==
    /\ \A k \in tempFiles \ removeFailed :
          stack # <<>> /\ Top.pc \in {"sign", "finally"} /\ Top.created = k
    /\ (/\ stack = <<>> /\ calls # <<>>
        /\ calls[Len(calls)].op = "sign" /\ ~calls[Len(calls)].ok)
       => raised = "RuntimeError"

----------------------------------------------------------------------------
(* Properties of the pipeline *)

Failed(c) == c.op \in {"sign", "verify"} /\ ~c.ok

\* C3: a failed sign or verify call is the last codesign call of the run, and
\* the output archive is not written after it.
C3_AbortAtOnce ==
    \A i \in CallIdx : Failed(calls[i]) => (i = Len(calls) /\ ~output_ipa)

\* a run that ended after the sign call on a nested artifact failed
C3_Witness ==
    /\ phase = "done"
    /\ \E i \in CallIdx : Failed(calls[i]) /\ calls[i].path # app_path /\ i > 2

\* C4: a run in which a fatal condition was raised ends by raising to the
\* caller of resign_ipa, whatever keep_temp is.
C4_FailurePropagates ==
    (phase = "done" /\ raised # "") => result = "raised"

VerifyIdx == {i \in CallIdx : calls[i].op = "verify"}

\* C6: there is at most one verify call, it is on the main bundle, it follows
\* the successful sign call on the main bundle and no codesign call follows it;
\* a run that succeeds has made it, and the archive is written only after it
\* succeeded.
C6_VerifyGate ==
    /\ Cardinality(VerifyIdx) <= 1
    /\ \A i \in VerifyIdx :
          /\ calls[i].path = app_path
          /\ i = Len(calls)
          /\ \E j \in 1..(i - 1) : calls[j] = SignCall(app_path, calls[j].ent, TRUE)
    /\ output_ipa => \E i \in VerifyIdx : calls[i].ok
    /\ (phase = "done" /\ raised = "") => (output_ipa /\ VerifyIdx # {})

\* a successful run over a tree with a nested bundle
C6_Witness ==
    /\ phase = "done" /\ output_ipa /\ result = "returned"
    /\ \E i \in CallIdx : calls[i].op = "sign" /\ calls[i].path # app_path

\* the entry resolved for bundle b breaks a rule of the validation
Inconsistent(b) ==
    /\ b \in DOMAIN ent_by_bundle
    /\ b \in DOMAIN bundle_ids
    /\ ValidationErrors(ent_by_bundle[b], bundle_ids[b][1], bundle_ids[b][2],
                        IF profile # None THEN profile.team_id ELSE <<>>, FALSE) # <<>>

\* C7: when the entitlements resolved for some bundle are inconsistent, no
\* Info.plist has been rewritten, no codesign call has been made, and the run
\* ends by raising.
C7_ValidationBeforeEffects ==
    (\E b \in fs : Inconsistent(b)) =>
        /\ modified = {}
        /\ calls = <<>>
        /\ phase = "done" => result = "raised"

----------------------------------------------------------------------------
(* Properties of the entitlements resolver *)

\* C8: the source document of every bundle handled so far is the explicit
\* document if there is one, and then extract_entitlements has not been called;
\* else what extract_entitlements returned, if a document; else the profile's
\* entitlements, if there is a profile; else None, and then the bundle's entry
\* is None.
C8_SourcePrecedence ==
    \A b \in DOMAIN selected :
        /\ explicit_entitlements # None =>
              selected[b] = explicit_entitlements /\ extract_calls = <<>>
        /\ explicit_entitlements = None =>
              /\ b \in DOMAIN extract_calls
              /\ selected[b] =
                    IF extract_calls[b] # None THEN extract_calls[b]
                    ELSE IF profile # None THEN profile.entitlements
                    ELSE None
        /\ selected[b] = None => (b \in DOMAIN ent_by_bundle /\ ent_by_bundle[b] = None)

\* a run that took a signed document for one bundle although a profile was
\* given, and the profile's document for another
C8_Witness ==
    /\ phase = "done" /\ result = "returned"
    /\ explicit_entitlements = None /\ profile # None
    /\ \E b \in DOMAIN selected :
          extract_calls[b] # None /\ selected[b] # profile.entitlements
    /\ \E b \in DOMAIN selected :
          extract_calls[b] = None /\ selected[b] = profile.entitlements

\* C9: with an explicit document, every entry of the map equals it.
C9_ExplicitVerbatim ==
    explicit_entitlements # None =>
        \A b \in DOMAIN ent_by_bundle : ent_by_bundle[b] = explicit_entitlements

IsAppIdKey(k) == k = AppIdKeys[1] \/ k = AppIdKeys[2]

\* C10: with a team and a changed identifier, the result has the keys of the
\* input, every application-identifier key holds team.new, a list under
\* keychain-access-groups keeps its length and is rewritten item by item (the
\* old prefix replaced, the remainder kept, other items untouched), and every
\* other value is the input's.
C10_AdjustRewrites ==
    (phase = "adjusted" /\ team_id # <<>> /\ old_bundle_id # new_bundle_id) =>
        LET old_prefix == TeamPrefix(team_id, old_bundle_id)
            new_prefix == TeamPrefix(team_id, new_bundle_id) IN
        /\ DOMAIN out = DOMAIN ent
        /\ \A k \in DOMAIN ent :
              IF IsAppIdKey(k) THEN out[k] = Str(new_prefix)
              ELSE IF k = KagKey /\ ent[k].t = "list"
              THEN /\ out[k].t = "list"
                   /\ Len(out[k].v) = Len(ent[k].v)
                   /\ \A i \in 1..Len(ent[k].v) :
                         LET item == ent[k].v[i] IN
                         IF item.t = "str" /\ startswith(item.v, old_prefix)
                         THEN out[k].v[i] =
                                 Str(new_prefix \o DropFirst(item.v, Len(old_prefix)))
                         ELSE out[k].v[i] = item
              ELSE out[k] = ent[k]

\* a rewrite of a document with an identifier and a list holding an item with
\* the old prefix and a remainder, and an item without it
C10_Witness ==
    /\ phase = "adjusted" /\ team_id # <<>> /\ old_bundle_id # new_bundle_id
    /\ AppIdKeys[1] \in DOMAIN ent
    /\ KagKey \in DOMAIN ent /\ ent[KagKey].t = "list"
    /\ \E i, j \in 1..Len(ent[KagKey].v) :
          LET old_prefix == TeamPrefix(team_id, old_bundle_id) IN
          /\ ent[KagKey].v[i].t = "str"
          /\ startswith(ent[KagKey].v[i].v, old_prefix)
          /\ Len(ent[KagKey].v[i].v) > Len(old_prefix)
          /\ out[KagKey].v[i] # ent[KagKey].v[i]
          /\ ent[KagKey].v[j].t = "str"
          /\ ~startswith(ent[KagKey].v[j].v, old_prefix)

\* C11: rewriting is idempotent: the function applied to its own output, with
\* the same team and identifiers, returns a document equal to that output.
C11_AdjustIdempotent ==
    phase = "readjusted" => out = ent

\* C12: without a team, or with an unchanged identifier, the document returned
\* equals the document passed in.
C12_AdjustNoOp ==
    (phase = "adjusted" /\ (team_id = <<>> \/ old_bundle_id = new_bundle_id)) =>
        out = ent

\* a call without a team but with a changed identifier, on a document that
\* holds an identifier and a list item with the old identifier after a team
C12_Witness ==
    /\ phase = "adjusted" /\ team_id = <<>> /\ old_bundle_id # new_bundle_id
    /\ AppIdKeys[1] \in DOMAIN ent /\ ent[AppIdKeys[1]].t = "str"
    /\ KagKey \in DOMAIN ent /\ ent[KagKey].t = "list"
    /\ \E i \in 1..Len(ent[KagKey].v) :
          /\ ent[KagKey].v[i].t = "str"
          /\ startswith(ent[KagKey].v[i].v, TeamPrefix(Team, old_bundle_id))
    /\ out = ent

\* the parts of s that can follow a prefix of it
Suffixes(s) == {SubSeq(s, i, Len(s)) : i \in 1..(Len(s) + 1)}

\* C13: the identifier returned is old_id when new_main_id is empty; else
\* new_main_id when old_id is old_main_id; else new_main_id followed by "." and
\* the rest when old_id is old_main_id, ".", and a rest; else old_id, also
\* when old_id starts with old_main_id without the "." after it.
C13_NewIdMapping ==
    phase = "mapped" =>
        LET o == id_args.old_id
            m == id_args.old_main_id
            n == id_args.new_main_id
            Sub == {r \in Suffixes(o) : o = m \o <<".">> \o r} IN
        /\ n = <<>> => id_result = o
        /\ (n # <<>> /\ o = m) => id_result = n
        /\ (n # <<>> /\ o # m) =>
              \A r \in Sub : id_result = n \o <<".">> \o r
        /\ (n # <<>> /\ o # m /\ Sub = {}) => id_result = o

\* an identifier that starts with the old main identifier, no "." following,
\* has been mapped to itself
C13_Witness ==
    /\ phase = "mapped"
    /\ id_args.new_main_id # <<>>
    /\ id_args.old_main_id # <<>>
    /\ id_args.old_id # id_args.old_main_id
    /\ startswith(id_args.old_id, id_args.old_main_id)
    /\ ~startswith(id_args.old_id, id_args.old_main_id \o <<".">>)
    /\ id_result = id_args.old_id
    /\ id_result # id_args.new_main_id

----------------------------------------------------------------------------
(* Properties of the validation *)

\* validate_entitlements_for_bundle has run on a document
Validated == phase = "validated" /\ ent # None

\* the key holds a string that is not blank
Usable(k) == k \in DOMAIN ent /\ ent[k].t = "str" /\ strip(ent[k].v) # <<>>

\* the key's value without the blanks around it
Trimmed(k) == strip(ent[k].v)

\* the team a usable key's value starts with, if it has a "."
InferredTeam(k) ==
    IF Usable(k) /\ HasDot(Trimmed(k)) THEN strip(BeforeFirstDot(Trimmed(k))) ELSE <<>>

\* the team identifier of the check: the profile's, else the one inferred
\* from an identifier key, the first key first; <<>> when there is none
KnownTeam ==
    IF strip(profile_team_id) # <<>> THEN strip(profile_team_id)
    ELSE IF InferredTeam(AppIdKeys[1]) # <<>> THEN InferredTeam(AppIdKeys[1])
    ELSE InferredTeam(AppIdKeys[2])

\* the message of the failure lists this error
Listed(rule, key, idx) ==
    /\ message # None
    /\ \E i \in 1..Len(message.detail) : message.detail[i] = Err(rule, key, idx)

\* the keychain-access-groups list, <<>> when the key holds none
KagList == IF KagKey \in DOMAIN ent /\ ent[KagKey].t = "list" THEN ent[KagKey].v ELSE <<>>

\* some item of the list is a string starting with team.old
StaleItem ==
    \E i \in 1..Len(KagList) :
        /\ KagList[i].t = "str"
        /\ startswith(KagList[i].v, TeamPrefix(KnownTeam, old_bundle_id))

\* the rules the document violates, each as the error that reports it
Violations ==
    (IF require_app_identifier /\ \A k \in {AppIdKeys[1], AppIdKeys[2]} : k \notin DOMAIN ent
     THEN {Err("missing application-identifier", "", 0)} ELSE {})
    \cup {Err("must be a non-empty string", k, 0) :
             k \in {k \in {AppIdKeys[1], AppIdKeys[2]} : k \in DOMAIN ent /\ ~Usable(k)}}
    \cup (IF /\ Usable(AppIdKeys[1]) /\ Usable(AppIdKeys[2])
             /\ Trimmed(AppIdKeys[1]) # Trimmed(AppIdKeys[2])
          THEN {Err("must match", "", 0)} ELSE {})
    \cup {Err("mismatch", k, 0) :
             k \in {k \in {AppIdKeys[1], AppIdKeys[2]} :
                      /\ Usable(k) /\ KnownTeam # <<>> /\ new_bundle_id # <<>>
                      /\ Trimmed(k) # TeamPrefix(KnownTeam, new_bundle_id)}}
    \cup (IF KagKey \in DOMAIN ent /\ ent[KagKey].t # "list"
          THEN {Err("keychain-access-groups must be an array", KagKey, 0)} ELSE {})
    \cup {Err("keychain-access-groups item must be a string", KagKey, i - 1) :
             i \in {i \in 1..Len(KagList) : KagList[i].t # "str"}}
    \cup (IF /\ KnownTeam # <<>> /\ old_bundle_id # <<>> /\ new_bundle_id # <<>>
             /\ old_bundle_id # new_bundle_id /\ StaleItem
          THEN {Err("contains old bundle prefix", KagKey, 0)} ELSE {})

\* C14: when the document violates rules, the function raises one SystemExit
\* whose message names the bundle path and lists every violated rule, not only
\* the first one found; identifier values are compared without the blanks
\* around them.
C14_AllViolationsReported ==
    (Validated /\ Violations # {}) =>
        /\ result = "raised" /\ raised = "SystemExit"
        /\ message # None
        /\ message.bundle_path \in todo
        /\ \A v \in Violations : Listed(v.rule, v.key, v.idx)

\* a failure that reports at least three different rules at once
C14_Witness ==
    /\ Validated /\ result = "raised"
    /\ Cardinality({v.rule : v \in Violations}) >= 3
    /\ Cardinality({message.detail[i].rule : i \in 1..Len(message.detail)}) >= 3

\* C15 as stated: whenever both application-identifier keys hold strings that
\* differ, validation fails with a message containing "must match".
C15_MustMatch_AsStated ==
    (/\ Validated
     /\ AppIdKeys[1] \in DOMAIN ent /\ ent[AppIdKeys[1]].t = "str"
     /\ AppIdKeys[2] \in DOMAIN ent /\ ent[AppIdKeys[2]].t = "str"
     /\ ent[AppIdKeys[1]].v # ent[AppIdKeys[2]].v) =>
        (result = "raised" /\ Listed("must match", "", 0))

\* C15: whenever both application-identifier keys hold non-blank strings
\* that differ after the blanks around them are removed, validation fails with
\* a message containing "must match".
C15_MustMatch ==
    (/\ Validated
     /\ Usable(AppIdKeys[1]) /\ Usable(AppIdKeys[2])
     /\ Trimmed(AppIdKeys[1]) # Trimmed(AppIdKeys[2])) =>
        (result = "raised" /\ Listed("must match", "", 0))

\* two well-formed identifiers of one team that differ have been rejected
C15_Witness ==
    /\ Validated
    /\ Usable(AppIdKeys[1]) /\ Usable(AppIdKeys[2])
    /\ Trimmed(AppIdKeys[1]) # Trimmed(AppIdKeys[2])
    /\ InferredTeam(AppIdKeys[1]) = InferredTeam(AppIdKeys[2])
    /\ result = "raised" /\ Listed("must match", "", 0)

\* no error of the expected-identifier check is in the message
NoMismatchListed ==
    message # None =>
        \A i \in 1..Len(message.detail) : message.detail[i].rule # "mismatch"

\* C16 as stated: whenever a team identifier can be determined, new_bundle_id
\* is not empty and some application-identifier key holds a value other than
\* team.new, validation fails; without a team the check reports nothing.
C16_ExpectedIdentifier_AsStated ==
    Validated =>
        /\ (/\ KnownTeam # <<>> /\ new_bundle_id # <<>>
            /\ \E k \in {AppIdKeys[1], AppIdKeys[2]} :
                  /\ k \in DOMAIN ent
                  /\ ent[k] # Str(TeamPrefix(KnownTeam, new_bundle_id))) =>
              result = "raised"
        /\ KnownTeam = <<>> => NoMismatchListed

\* C16: whenever a team identifier can be determined, new_bundle_id is not
\* empty and some application-identifier key holds a value that, without the
\* blanks around it, is not team.new, validation fails; without a team the
\* check reports nothing.
C16_ExpectedIdentifier ==
    Validated =>
        /\ (/\ KnownTeam # <<>> /\ new_bundle_id # <<>>
            /\ \E k \in {AppIdKeys[1], AppIdKeys[2]} :
                  /\ k \in DOMAIN ent
                  /\ (Usable(k) => Trimmed(k) # TeamPrefix(KnownTeam, new_bundle_id))) =>
              result = "raised"
        /\ KnownTeam = <<>> => NoMismatchListed

\* without a team in the profile, the team was inferred from the document,
\* whose only identifier is not team.new, and the call failed for that alone
C16_Witness ==
    /\ Validated
    /\ strip(profile_team_id) = <<>> /\ KnownTeam # <<>>
    /\ new_bundle_id # <<>>
    /\ result = "raised"
    /\ Len(message.detail) = 1
    /\ message.detail[1].rule = "mismatch"

\* C17: whenever the identifier changed (old and new differ, neither empty),
\* a team identifier is known and the keychain-access-groups list holds a
\* string starting with team.old, validation fails and reports the old prefix.
C17_StalePrefixRejected ==
    (/\ Validated
     /\ old_bundle_id # <<>> /\ new_bundle_id # <<>>
     /\ old_bundle_id # new_bundle_id
     /\ KnownTeam # <<>>
     /\ StaleItem) =>
        (result = "raised" /\ Listed("contains old bundle prefix", KagKey, 0))

\* a document that is in order but for one list item with the old prefix,
\* the team being inferred from its identifier, has been rejected
C17_Witness ==
    /\ Validated
    /\ strip(profile_team_id) = <<>> /\ KnownTeam # <<>>
    /\ old_bundle_id # <<>> /\ new_bundle_id # <<>>
    /\ old_bundle_id # new_bundle_id
    /\ StaleItem
    /\ result = "raised"
    /\ Len(message.detail) = 1
    /\ message.detail[1].rule = "contains old bundle prefix"

----------------------------------------------------------------------------
(* Properties of the strict mode *)

\* the document holds neither application-identifier key
LacksAppId(d) == \A k \in {AppIdKeys[1], AppIdKeys[2]} : k \notin DOMAIN d

\* C18: in strict mode no bundle gets an entry that is a document holding
\* neither application-identifier key: the resolution fails for it; without
\* strict mode a resolution never fails on a document that holds neither of
\* these keys nor a keychain-access-groups key.
C18_StrictRequiresIdentifier ==
    /\ require_app_identifier =>
          \A b \in DOMAIN ent_by_bundle :
              ent_by_bundle[b] # None => ~LacksAppId(ent_by_bundle[b])
    /\ (~require_app_identifier /\ phase = "done" /\ raised = "SystemExit") =>
          ~(LacksAppId(selected[NextBundle]) /\ KagKey \notin DOMAIN selected[NextBundle])

----------------------------------------------------------------------------
(* Properties of the entitlements passed to codesign *)

\* C19: a sign call on a framework directory or a library file carries no
\* entitlements file, whatever the map holds for that path; a sign call on a
\* bundle (.app, .appex, .xpc) carries one exactly if the map holds a document,
\* not None, for that very path.
C19_EntitlementsOnlyForOwnBundle ==
    \A i \in CallIdx :
        calls[i].op = "sign" =>
            LET p == calls[i].path IN
            IF Ext[Last(p)] \in {".app", ".appex", ".xpc"}
            THEN calls[i].ent <=> (p \in DOMAIN ent_by_bundle /\ ent_by_bundle[p] # None)
            ELSE ~calls[i].ent

\* a walk that ended after signing a framework the map has a document for,
\* a nested bundle without an entry while the main bundle has one, and the
\* main bundle with its document
C19_Witness ==
    /\ SignReturned
    /\ \E i \in CallIdx :
          /\ calls[i].op = "sign" /\ Ext[Last(calls[i].path)] = ".framework"
          /\ calls[i].path \in DOMAIN ent_by_bundle
          /\ ent_by_bundle[calls[i].path] # None
          /\ ~calls[i].ent
    /\ \E i \in CallIdx :
          /\ calls[i].op = "sign" /\ Ext[Last(calls[i].path)] \in {".appex", ".xpc", ".app"}
          /\ calls[i].path # app_path
          /\ calls[i].path \notin DOMAIN ent_by_bundle
          /\ ~calls[i].ent
    /\ \E i \in CallIdx :
          /\ calls[i].op = "sign" /\ calls[i].path = app_path /\ calls[i].ent

----------------------------------------------------------------------------
(* Properties of the bundle scan *)

\* a directory below the root named as a bundle
NestedBundleDir(p) ==
    /\ p \in fs /\ Inside(p, app_path) /\ Last(p) \notin FileNames
    /\ Ext[Last(p)] \in {".app", ".appex", ".xpc"}

\* C20: the list returned starts with the root; after it come the directories
\* below the root, at any depth, whose name ends in .app, .appex or .xpc, and
\* nothing else; no path occurs twice; and the paths after the root come in
\* non-decreasing order of path length.
C20_BundlesFound ==
    phase = "found" =>
        /\ Len(found) >= 1 /\ found[1] = app_path
        /\ \A p \in fs : NestedBundleDir(p) => \E i \in 2..Len(found) : found[i] = p
        /\ \A i \in 2..Len(found) : NestedBundleDir(found[i])
        /\ \A i, j \in 1..Len(found) : found[i] = found[j] => i = j
        /\ \A i, j \in 2..Len(found) : i < j => PathLen(found[i]) <= PathLen(found[j])

\* a scan that found a bundle nested in a nested bundle and a third bundle
\* with a longer path
C20_Witness ==
    /\ phase = "found"
    /\ Len(found) >= 4
    /\ \E i, j \in 2..Len(found) : Inside(found[j], found[i])
    /\ \E i, j \in 2..Len(found) :
          i < j /\ PathLen(found[i]) < PathLen(found[j]) /\ ~Inside(found[j], found[i])

----------------------------------------------------------------------------
(* Properties of the order of the sign steps *)

\* the step of container b that handles path p: 1 PlugIns, 2 Watch,
\* 3 Frameworks, 4 XPCServices, 5 the container itself, 0 none of them
StepOf(b, p) ==
    IF p = b THEN 5
    ELSE IF ~Inside(p, b) THEN 0
    ELSE CASE p[Len(b) + 1] = "PlugIns" -> 1
           [] p[Len(b) + 1] = "Watch" -> 2
           [] p[Len(b) + 1] = "Frameworks" -> 3
           [] p[Len(b) + 1] = "XPCServices" -> 4
           [] OTHER -> 0

\* the bundles some codesign call has been made on
HandledBundles ==
    {calls[i].path : i \in {k \in CallIdx :
        Ext[Last(calls[k].path)] \in {".app", ".appex", ".xpc"}}}

\* C21: for every container bundle, the removal and sign calls on what lies
\* under its PlugIns come first, then those under Watch, then those under
\* Frameworks, then those under XPCServices, and the calls on the container
\* itself come last: no call of an earlier step follows a call of a later one.
C21_StepOrder ==
    \A b \in HandledBundles :
        \A i, j \in CallIdx :
            (/\ i < j
             /\ calls[i].op \in {"remove_signature", "sign"}
             /\ calls[j].op \in {"remove_signature", "sign"}
             /\ StepOf(b, calls[i].path) > 0
             /\ StepOf(b, calls[j].path) > 0)
            => StepOf(b, calls[i].path) <= StepOf(b, calls[j].path)

\* C22: every sign call on a path is preceded by a removal call on that path
\* with no sign call in between; and after a removal that failed the walk goes
\* on: the next call is the sign call on that path, unless the walk is still
\* preparing that sign call or writing the bundle's entitlements file failed.
C22_RemoveThenSign ==
    /\ \A j \in CallIdx :
          calls[j].op = "sign" =>
              \E i \in 1..(j - 1) :
                  /\ calls[i].op = "remove_signature"
                  /\ calls[i].path = calls[j].path
                  /\ \A k \in (i + 1)..(j - 1) : calls[k].op # "sign"
    /\ \A i \in CallIdx :
          (calls[i].op = "remove_signature" /\ ~calls[i].ok) =>
              IF i < Len(calls)
              THEN calls[i + 1].op = "sign" /\ calls[i + 1].path = calls[i].path
              ELSE \/ /\ stack # <<>>
                      /\ Top.bundle_path = calls[i].path
                      /\ \/ Top.pc = "sign"
                         \/ Top.pc = "finally" /\ Top.pending \in {"TypeError", "OSError"}
                   \/ raised \in {"TypeError", "OSError"}

\* a walk that returned after removals failed on a nested bundle and on a
\* library, each followed by its sign call
C22_Witness ==
    /\ SignReturned
    /\ \E i \in CallIdx :
          /\ calls[i].op = "remove_signature" /\ ~calls[i].ok
          /\ Ext[Last(calls[i].path)] \in {".app", ".appex", ".xpc"}
          /\ calls[i + 1].op = "sign" /\ calls[i + 1].ok
    /\ \E i \in CallIdx :
          /\ calls[i].op = "remove_signature" /\ ~calls[i].ok
          /\ Ext[Last(calls[i].path)] = ".so"
          /\ calls[i + 1].op = "sign" /\ calls[i + 1].ok

----------------------------------------------------------------------------
(* Properties of the resolver's rewriting *)

\* C23: a bundle's entry differs from its source document only if there is a
\* profile, the bundle has an identifier pair and the pair's identifiers
\* differ; a bundle without a pair gets its source document as its entry, and
\* the resolution never fails on such a bundle.
C23_RewriteOnlyWhenChanged ==
    /\ \A b \in DOMAIN ent_by_bundle :
          ent_by_bundle[b] # selected[b] =>
              /\ profile # None
              /\ b \in DOMAIN bundle_ids
              /\ bundle_ids[b][1] # bundle_ids[b][2]
    /\ \A b \in DOMAIN selected :
          b \notin DOMAIN bundle_ids =>
              (b \in DOMAIN ent_by_bundle /\ ent_by_bundle[b] = selected[b])
    /\ (phase = "done" /\ raised = "SystemExit") => NextBundle \in DOMAIN bundle_ids

\* a resolution that returned after it rewrote the document of one bundle and
\* passed on the document of a bundle without an identifier pair
C23_Witness ==
    /\ phase = "done" /\ result = "returned"
    /\ \E b \in DOMAIN ent_by_bundle : ent_by_bundle[b] # selected[b]
    /\ \E b \in DOMAIN ent_by_bundle :
          /\ b \notin DOMAIN bundle_ids
          /\ ent_by_bundle[b] # None
          /\ ent_by_bundle[b] = selected[b]

----------------------------------------------------------------------------
(* Properties of the keychain-access-groups checks *)

\* the indexes of the list's items that are not strings
OffendingIdx == {i \in 1..Len(KagList) : KagList[i].t # "str"}

\* the errors of the message that report an item that is not a string
ItemErrorIdx ==
    IF message = None THEN {}
    ELSE {i \in 1..Len(message.detail) :
             message.detail[i].rule = "keychain-access-groups item must be a string"}

\* C24: validation fails when keychain-access-groups is present and is not a
\* list, and when it is a list with an item that is not a string; the message
\* then holds exactly one error for every offending index.
C24_KagTypeChecked ==
    /\ (Validated /\ KagKey \in DOMAIN ent /\ ent[KagKey].t # "list") =>
          /\ result = "raised" /\ raised = "SystemExit"
          /\ Listed("keychain-access-groups must be an array", KagKey, 0)
    /\ (Validated /\ OffendingIdx # {}) =>
          /\ result = "raised" /\ raised = "SystemExit"
          /\ \A i \in OffendingIdx :
                Listed("keychain-access-groups item must be a string", KagKey, i - 1)
          /\ Cardinality(ItemErrorIdx) = Cardinality(OffendingIdx)

\* a failure on a list with two items that are not strings
C24_Witness ==
    /\ Validated /\ result = "raised"
    /\ Cardinality(OffendingIdx) >= 2
    /\ Cardinality(ItemErrorIdx) >= 2

----------------------------------------------------------------------------
(* Properties of the temporary entitlements files *)

\* the file belongs to the activation on top of the stack only, it was made
\* after everything nested in the bundle was signed, and the sign call of the
\* bundle is handed the file made for it
FilePrivate ==
    /\ \A i \in 1..Len(stack) :
          stack[i].created # 0 =>
              /\ i = Len(stack)
              /\ stack[i].pc \in {"sign", "finally"}
              /\ stack[i].created = tmpCount
              /\ \A p \in fs :
                    (Signable(p) /\ Inside(p, stack[i].bundle_path)) => SignCount(p) >= 1
    /\ \A i \in 1..Len(stack) :
          stack[i].ent_path # 0 => stack[i].ent_path = stack[i].created

\* C25: at every moment at most one temporary entitlements file exists, it is
\* the file of the sign step in progress, made after the bundle's nested
\* components were signed, and no two sign steps share a file.
C25_OneTempFile ==
    /\ Cardinality(tempFiles) <= 1
    /\ FilePrivate

----------------------------------------------------------------------------
(* Properties relating the scan and the walk *)

\* C26: when the walk on the root returns, the root and every directory below
\* it whose name ends in .app, .appex or .xpc, which are the paths
\* find_bundles_under returns, have received a sign call.
C26_FoundBundlesSigned ==
    SignReturned =>
        \A p \in fs : (p = app_path \/ NestedBundleDir(p)) => SignCount(p) >= 1

----------------------------------------------------------------------------
(* Properties of rewriting followed by validation *)

\* the identifier values of the document are non-empty strings and its
\* keychain-access-groups, if present, is a list of strings
WellTyped(d) ==
    /\ \A k \in {AppIdKeys[1], AppIdKeys[2]} :
          k \in DOMAIN d => (d[k].t = "str" /\ d[k].v # <<>>)
    /\ KagKey \in DOMAIN d =>
          /\ d[KagKey].t = "list"
          /\ \A i \in 1..Len(d[KagKey].v) : d[KagKey].v[i].t = "str"

\* C27: for a well-typed document, a non-empty team and different old and new
\* identifiers, validating the rewritten document with the same team and
\* identifiers, not in strict mode, raises no error.
C27_RewrittenPassesValidation ==
    (/\ phase = "checked" /\ WellTyped(ent)
     /\ team_id # <<>> /\ old_bundle_id # new_bundle_id)
    => (result = "returned" /\ raised = "")

----------------------------------------------------------------------------
(* Properties of the identifier mapping across bundles *)

\* C28: with the same old main identifier and a non-empty new main
\* identifier, no other old identifier is mapped to the identifier this call
\* returned; the identifiers of bundles are not empty (ipa.py, lines 367-368).
C28_NewIdInjective ==
    (/\ phase = "mapped" /\ id_args.new_main_id # <<>>
     /\ id_args.old_main_id # <<>> /\ id_args.old_id # <<>>) =>
        \A other \in IdStrings :
            (other # <<>> /\ other # id_args.old_id) =>
                bundle_new_id_for(other, id_args.old_main_id, id_args.new_main_id)
                    # id_result

----------------------------------------------------------------------------
(* Properties of the dict objects of a resolution *)

\* C29: no step of build_entitlements_by_bundle changes the content of a dict
\* that exists, be it the explicit document, the profile's entitlements, a
\* document extract_entitlements returned or the document of another bundle's
\* entry; and the entry of a bundle, once stored, keeps its object.
C29_NoSharedDocumentChanged ==
    [][/\ \A o \in DOMAIN heap : o \in DOMAIN heap' /\ heap'[o] = heap[o]
       /\ \A b \in DOMAIN ent_by_bundle :
             b \in DOMAIN ent_by_bundle' /\ ent_by_bundle'[b] = ent_by_bundle[b]]_vars

\* all bundles started from the explicit document; one entry is a rewritten
\* dict of its own and another entry is the explicit document itself
C29_Witness ==
    /\ phase = "resolved" /\ result = "returned"
    /\ explicit_entitlements # None
    /\ heap[Obj("explicit", <<>>)] = explicit_entitlements
    /\ \E b1, b2 \in DOMAIN ent_by_bundle :
          /\ ent_by_bundle[b1] = Obj("explicit", <<>>)
          /\ ent_by_bundle[b2] = Obj("rewritten", b2)
          /\ heap[ent_by_bundle[b2]] # heap[ent_by_bundle[b1]]

----------------------------------------------------------------------------
(* Properties of the temporary working directory *)

\* C30: when resign_ipa has ended and it had created its temporary working
\* directory, the directory still exists if keep_temp is true and no longer
\* exists if keep_temp is false, whether the run returned or failed.
C30_TempDirRemoved ==
    (phase = "done" /\ td # "") =>
        /\ keep_temp => td = "exists"
        /\ ~keep_temp => td = "removed"

\* a run without keep_temp that failed in a codesign call and has removed its
\* directory
C30_Witness ==
    /\ phase = "done" /\ ~keep_temp
    /\ td = "removed"
    /\ result = "raised"
    /\ \E i \in CallIdx : Failed(calls[i])

====
